---- MODULE Spec2Model ----
(***************************************************************************)
(* Game-time monitoring and triggered-scraping scheduler of DFS-Scraper    *)
(* (src/monitor.py).                                                       *)
(*                                                                         *)
(* Time is a count of minutes.  check_interval (seconds in the source) is  *)
(* held in the model in minutes as well, so one clock serves the sleep and *)
(* the trigger window.  The informational fields of a game dict (season,   *)
(* week, minutes_until, game_time_str ...) take no part in any decision of *)
(* the loop and are left out; a game is its matchup and its game_time.     *)
(***************************************************************************)
EXTENDS Integers, Sequences, FiniteSets, TLC

\* ---- constants of the rate limiter, in tenths of a second -----------------
RequestWindow == 600
MinRequestInterval == 11
MaxRequestsPerMinute == 50

\* ---- bounds of the model ------------------------------------------------
MaxTime == 8
MaxCheckInterval == 2
MaxTriggerWindow == 2
MaxCallbackTime == 1

\* The fixtures the provider can list: a first slot, a slot of two simultaneous
\* kick-offs and a last slot.
Universe ==
    { [teams |-> "DAL@PHI", game_time |-> 3],
      [teams |-> "KC@LAC",  game_time |-> 5],
      [teams |-> "TB@ATL",  game_time |-> 5],
      [teams |-> "MIN@CHI", game_time |-> 7] }

VARIABLES
    now,                        \* the wall clock (datetime.now)
    schedule,                   \* what nfl.import_schedules currently lists
    check_interval,             \* parameters of monitor_nfl_games
    trigger_window,
    auto_continue,
    has_callback,               \* scraping_callback is not None
    caller_sink,                \* the sheets handle the caller of the scheduler holds
    last_triggered_games,       \* set of game_time keys already triggered
    current_monitoring_games,   \* None, or the stored list of games
    next_games,                 \* the tick's local next_games
    pc,                         \* "tick", "callback", "sleep", "interrupted", "crashed"
    callback_args,              \* arguments of the callback in flight
    calls,                      \* log of the callback invocations of the run
    last_outcome,               \* how the last tick ended
    cmg_before,                 \* current_monitoring_games at the start of the last tick
    source_status,              \* the schedule query of the last tick
    slept,                      \* argument of the last time.sleep
    win_in, win_out,            \* an evaluation of is_game_within_trigger_window
    parse_in, parse_now, parse_out,  \* an evaluation of parse_game_time
    date_out,                   \* an evaluation of NFLStatsFetcher.parse_game_date
    cache_today,                \* datetime.now().date() as seen by get_nfl_game_times
    nfl_game_times_cache,       \* _nfl_game_times_cache
    nfl_cache_date,             \* _nfl_cache_date: {} for None, {d} for date d
    cache_obtained,             \* dates on which the provider returned schedule data
    cache_call,                 \* the last call of get_nfl_game_times
    games_info, sheets_service, \* arguments of the scraping callback
    scraping_callback,          \* the callback run_monitoring_session settles on
    seq_pc,                     \* "start", "step2", "returned"
    overall_success,
    prizepicks_success, underdog_success,
    scraper_log,                \* the scraper steps run, in order
    provider_rows,              \* the rows of nfl.import_schedules, in the provider's order
    order_now,                  \* current_time of the schedule functions
    fetched_all_games,          \* what get_nfl_schedule_2025 returned
    sorted_upcoming_games,      \* upcoming_games of get_next_nfl_games after its sort
    slot_games,                 \* what get_next_nfl_games returned
    rl_clock,                   \* time.time(), in tenths of a second
    last_request_time,          \* fields of RateLimitedSheetsService
    request_count,
    request_window_start,
    admitted,                   \* the times at which _wait_if_needed let a request go
    rl_waits,                   \* the two sleeps of the last _wait_if_needed
    sheet,                      \* the worksheet: whether it exists, and its rows
    sheet_data,                 \* the player data handed to create_or_update_sheet
    sheet_calls,                \* calls of create_or_update_sheet so far
    sheet_created,              \* the first call created the worksheet
    api_all_ok,                 \* every request of every call succeeded
    last_write                  \* what the last call wrote and returned

monitorVars ==
    << now, schedule, check_interval, trigger_window, auto_continue, has_callback,
       caller_sink, last_triggered_games, current_monitoring_games, next_games, pc,
       callback_args, calls, last_outcome, cmg_before, source_status, slept >>

windowVars == << win_in, win_out >>
parseVars == << parse_in, parse_now, parse_out, date_out >>
cacheVars ==
    << cache_today, nfl_game_times_cache, nfl_cache_date, cache_obtained, cache_call >>
seqVars ==
    << games_info, sheets_service, scraping_callback, seq_pc, overall_success,
       prizepicks_success, underdog_success, scraper_log >>
orderVars ==
    << provider_rows, order_now, fetched_all_games, sorted_upcoming_games, slot_games >>
limiterVars ==
    << rl_clock, last_request_time, request_count, request_window_start, admitted,
       rl_waits >>
sheetVars == << sheet, sheet_data, sheet_calls, sheet_created, api_all_ok, last_write >>
extraVars == << limiterVars, sheetVars >>
sideVars == << cacheVars, seqVars, orderVars, extraVars >>

\* ---- values ---------------------------------------------------------------
\* Python's None against a (possibly empty) list of games.
NoneGames == [isNone |-> TRUE, games |-> {}]
ListOf(gs) == [isNone |-> FALSE, games |-> gs]
\* truthiness of `current_monitoring_games` / `next_games`
Truthy(v) == ~v.isNone /\ v.games # {}
\* games[0]['game_time']: every game of a slot has the same game_time
FirstGameTime(gs) == (CHOOSE g \in gs : TRUE).game_time
MinTime(gs) == CHOOSE t \in {g.game_time : g \in gs} :
                   \A g \in gs : t <= g.game_time

\* ---- schedule source ------------------------------------------------------
\* get_nfl_schedule_2025: [] when the provider fails or has nothing, else the
\* games that are not before current_time.
get_nfl_schedule_2025(provider_ok, current_time) ==
    IF ~provider_ok \/ schedule = {}
    THEN {}
    ELSE {g \in schedule : ~(g.game_time < current_time)}

\* get_next_nfl_games: all games at the earliest game_time strictly after now.
MutNextReturnsAllUpcoming(provider_ok, current_time) ==
    {g \in get_nfl_schedule_2025(provider_ok, current_time) : ~(g.game_time <= current_time)}
get_next_nfl_games(provider_ok, current_time) ==
    LET all_games == get_nfl_schedule_2025(provider_ok, current_time)
        upcoming_games == {g \in all_games : ~(g.game_time <= current_time)}
    IN  IF all_games = {} \/ upcoming_games = {}
        THEN {}
        ELSE {g \in upcoming_games : g.game_time = MinTime(upcoming_games)}

\* get_next_upcoming_games_after_current: the slot after the given games.
MutNextAfterIgnoresCurrent(current_games, provider_ok, current_time) ==
    get_next_nfl_games(provider_ok, current_time)
get_next_upcoming_games_after_current(current_games, provider_ok, current_time) ==
    IF current_games = {}
    THEN get_next_nfl_games(provider_ok, current_time)
    ELSE LET all_games == get_nfl_schedule_2025(provider_ok, current_time)
             current_game_time == FirstGameTime(current_games)
             upcoming_games == {g \in all_games : ~(g.game_time <= current_game_time)}
         IN  IF all_games = {} \/ upcoming_games = {}
             THEN {}
             ELSE {g \in upcoming_games : g.game_time = MinTime(upcoming_games)}

\* ---- trigger window -------------------------------------------------------
\* is_game_within_trigger_window; the loop passes first_game, a non-empty dict,
\* so the `if not game` exit of line 269 is never taken.
MutWithinNoUpperBound(game_time, window, current_time) ==
    0 <= game_time - current_time
MutWithinExclusive(game_time, window, current_time) ==
    LET time_diff_minutes == game_time - current_time
    IN  0 < time_diff_minutes /\ time_diff_minutes < window
is_game_within_trigger_window(game_time, window, current_time) ==
    LET time_diff_minutes == game_time - current_time
    IN  0 <= time_diff_minutes /\ time_diff_minutes <= window

\* ---- pieces of the loop body ----------------------------------------------
\* line 333: first_game['game_time'] not in last_triggered_games
MutNeverTriggered(key, triggered) == TRUE
NotYetTriggered(key, triggered) == key \notin triggered

\* line 334: last_triggered_games.add(first_game['game_time']), ahead of the call
MutMarkNothing(key, triggered) == triggered
MarkTriggered(key, triggered) == triggered \cup {key}

\* line 338: scraping_callback(next_games, None)
MutCallbackPassesCallerSink(games) == [games |-> games, sink |-> caller_sink]
MutCallbackFirstGameOnly(games) ==
    [games |-> {CHOOSE g \in games : TRUE}, sink |-> "None"]
CallbackArguments(games) == [games |-> games, sink |-> "None"]

\* line 341: if auto_continue and scrape_success
MutContinueOnFailure(auto, scrape_success) == auto
ShouldContinue(auto, scrape_success) == auto /\ scrape_success

\* lines 365-366: an exception inside the tick is caught and the loop goes on
\* to the sleep; uncaught it would reach line 380 and end the loop.
MutExceptionEndsLoop == "crashed"
AfterTickException == "sleep"

\* lines 361-363: no games found
MutKeepEmptyList(found) == ListOf(found)
WatchAfterNoGames(found) == NoneGames

\* line 376: time.sleep(check_interval)
MutSleepWindow(interval, window) == window + 1
SleepArgument(interval, window) == interval

\* ---- the loop ---------------------------------------------------------------
WindowIdle == win_in = [game_time |-> 0, window |-> 0, now |-> 0] /\ win_out = "none"
ParseIdle ==
    /\ parse_in = [shape |-> "empty", day_abbr |-> "", hour |-> 0, minute |-> 0, ampm |-> ""]
    /\ parse_now = [day |-> 0, hour |-> 0, minute |-> 0, second |-> 0]
    /\ parse_out = [kind |-> "pending", day |-> 0, hour |-> 0, minute |-> 0, second |-> 0]
    /\ date_out = [kind |-> "pending", day |-> 0, hour |-> 0, minute |-> 0, second |-> 0]

\* Python's None against a (possibly empty) dict
NoneDict == [isNone |-> TRUE, items |-> {}]
DictOf(items) == [isNone |-> FALSE, items |-> items]
\* a list that a function has not produced yet, against the list it produced
NotYet == [done |-> FALSE, list |-> << >>]
Produced(list) == [done |-> TRUE, list |-> list]

\* visit_prizepicks.py lines 26-27: the cache after the module is imported
CacheIdle ==
    /\ cache_today = 0
    /\ nfl_game_times_cache = NoneDict
    /\ nfl_cache_date = {}
    /\ cache_obtained = {}
    /\ cache_call = [kind |-> "none", date |-> 0, prior_response |-> FALSE,
                     cached_before |-> NoneDict, date_before |-> {},
                     provider_called |-> FALSE, ret |-> NoneDict]
SequentialIdle ==
    /\ games_info = {}
    /\ sheets_service = "None"
    /\ scraping_callback = "None"
    /\ seq_pc = "not_started"
    /\ overall_success = TRUE
    /\ prizepicks_success = "pending"
    /\ underdog_success = "pending"
    /\ scraper_log = << >>
OrderIdle ==
    /\ provider_rows = << >>
    /\ order_now = 0
    /\ fetched_all_games = NotYet
    /\ sorted_upcoming_games = NotYet
    /\ slot_games = NotYet
\* rate_limited_sheets.py lines 13-17, seen from the time of construction: the
\* last request lies a whole window back
LimiterIdle ==
    /\ rl_clock = 0
    /\ last_request_time = 0 - RequestWindow
    /\ request_count = 0
    /\ request_window_start = 0
    /\ admitted = << >>
    /\ rl_waits = [minute |-> 0, interval |-> 0]
SheetIdle ==
    /\ sheet = [exists |-> FALSE, rows |-> << >>]
    /\ sheet_data = << >>
    /\ sheet_calls = 0
    /\ sheet_created = FALSE
    /\ api_all_ok = TRUE
    /\ last_write = [ret |-> "none", updated |-> 0, appended |-> 0]
ExtraIdle == LimiterIdle /\ SheetIdle
SideIdle == CacheIdle /\ SequentialIdle /\ OrderIdle /\ ExtraIdle

Init ==
    /\ now = 0
    /\ schedule \in SUBSET Universe
    /\ check_interval \in 1..MaxCheckInterval
    /\ trigger_window \in 1..MaxTriggerWindow
    /\ auto_continue \in BOOLEAN
    /\ has_callback \in BOOLEAN
    /\ caller_sink \in {"None", "sheets_service"}
    /\ last_triggered_games = {}
    /\ current_monitoring_games = NoneGames
    /\ next_games = {}
    /\ pc = "tick"
    /\ callback_args = [games |-> {}, sink |-> "None"]
    /\ calls = << >>
    /\ last_outcome = "none"
    /\ cmg_before = NoneGames
    /\ source_status = "not_queried"
    /\ slept = 0
    /\ WindowIdle
    /\ ParseIdle
    /\ SideIdle

\* lines 294-306: the games of this tick and the stored watch set
MutSelectRequeriesAlways(provider_ok) ==
    [next |-> get_next_nfl_games(provider_ok, now),
     watch |-> current_monitoring_games, queried |-> TRUE]
MutSelectMergesListed(provider_ok) ==
    IF current_monitoring_games.isNone
    THEN [next |-> get_next_nfl_games(provider_ok, now),
          watch |-> current_monitoring_games, queried |-> TRUE]
    ELSE IF Truthy(current_monitoring_games)
            /\ FirstGameTime(current_monitoring_games.games) > now
         THEN LET merged == current_monitoring_games.games \cup
                                {g \in schedule : g.game_time =
                                     FirstGameTime(current_monitoring_games.games)}
              IN  [next |-> merged, watch |-> ListOf(merged), queried |-> FALSE]
         ELSE LET found == get_next_upcoming_games_after_current(
                               current_monitoring_games.games, provider_ok, now)
              IN  [next |-> found, watch |-> ListOf(found), queried |-> TRUE]
SelectGames(provider_ok) ==
    IF current_monitoring_games.isNone
    THEN [next |-> get_next_nfl_games(provider_ok, now),
          watch |-> current_monitoring_games, queried |-> TRUE]
    ELSE IF Truthy(current_monitoring_games)
            /\ FirstGameTime(current_monitoring_games.games) > now
         THEN [next |-> current_monitoring_games.games,
               watch |-> current_monitoring_games, queried |-> FALSE]
         ELSE LET found == get_next_upcoming_games_after_current(
                               current_monitoring_games.games, provider_ok, now)
              IN  [next |-> found, watch |-> ListOf(found), queried |-> TRUE]

\* lines 292-338: one tick up to the call of the callback (or to the sleep)
TickBeginFrom(answers) ==
    /\ pc = "tick"
    /\ \E provider_ok \in answers :
         LET sel == SelectGames(provider_ok)
             key == FirstGameTime(sel.next)
         IN  /\ next_games' = sel.next
             /\ cmg_before' = current_monitoring_games
             /\ source_status' = IF ~sel.queried THEN "not_queried"
                                  ELSE IF ~provider_ok THEN "failed"
                                  ELSE IF sel.next = {} THEN "empty"
                                  ELSE "games"
             /\ IF sel.next = {}
                THEN /\ current_monitoring_games' = WatchAfterNoGames(sel.next)
                     /\ last_outcome' = "no_games"
                     /\ pc' = "sleep"
                     /\ UNCHANGED << last_triggered_games, callback_args, calls >>
                ELSE /\ current_monitoring_games' = sel.watch
                     /\ IF is_game_within_trigger_window(key, trigger_window, now)
                        THEN IF NotYetTriggered(key, last_triggered_games)
                             THEN /\ last_triggered_games' = MarkTriggered(key, last_triggered_games)
                                  /\ IF has_callback
                                     THEN /\ callback_args' = CallbackArguments(sel.next)
                                          /\ calls' = Append(calls,
                                                 [slot_time |-> key, at |-> now,
                                                  args |-> CallbackArguments(sel.next)])
                                          /\ last_outcome' = "calling"
                                          /\ pc' = "callback"
                                     ELSE /\ last_outcome' = "no_callback"
                                          /\ pc' = "sleep"
                                          /\ UNCHANGED << callback_args, calls >>
                             ELSE /\ last_outcome' = "already_triggered"
                                  /\ pc' = "sleep"
                                  /\ UNCHANGED << last_triggered_games, callback_args, calls >>
                        ELSE /\ last_outcome' = "waiting"
                             /\ pc' = "sleep"
                             /\ UNCHANGED << last_triggered_games, callback_args, calls >>
    /\ UNCHANGED << now, schedule, check_interval, trigger_window, auto_continue,
                    has_callback, slept >>
    /\ UNCHANGED << caller_sink, windowVars, parseVars, sideVars >>

\* the schedule source may fail at any query
TickBegin == TickBeginFrom(BOOLEAN)

\* lines 338-351 and 365-366: the callback returns True, returns False or
\* raises, after taking some time.
CallbackReturnFrom(durations, answers) ==
    /\ pc = "callback"
    /\ \E result \in {"success", "failure", "raised"}, took \in durations,
          provider_ok \in answers :
         /\ now + took <= MaxTime
         /\ now' = now + took
         /\ last_outcome' = result
         /\ IF result = "raised"
            THEN /\ pc' = AfterTickException
                 /\ UNCHANGED current_monitoring_games
            ELSE /\ pc' = "sleep"
                 /\ IF ShouldContinue(auto_continue, result = "success")
                    THEN LET next_upcoming == get_next_upcoming_games_after_current(
                                                  next_games, provider_ok, now + took)
                         IN  current_monitoring_games' =
                                 IF next_upcoming # {} THEN ListOf(next_upcoming)
                                                       ELSE NoneGames
                    ELSE UNCHANGED current_monitoring_games
    /\ UNCHANGED << schedule, check_interval, trigger_window, auto_continue, has_callback,
                    last_triggered_games, next_games, callback_args, calls,
                    cmg_before, source_status, slept >>
    /\ UNCHANGED << caller_sink, windowVars, parseVars, sideVars >>

CallbackReturn == CallbackReturnFrom(0..MaxCallbackTime, BOOLEAN)

\* lines 368-376: the sleep between two ticks
Sleep ==
    /\ pc = "sleep"
    /\ slept' = SleepArgument(check_interval, trigger_window)
    /\ now + slept' <= MaxTime
    /\ now' = now + slept'
    /\ pc' = "tick"
    /\ UNCHANGED << schedule, check_interval, trigger_window, auto_continue, has_callback,
                    last_triggered_games, current_monitoring_games, next_games,
                    callback_args, calls, last_outcome, cmg_before, source_status >>
    /\ UNCHANGED << caller_sink, windowVars, parseVars, sideVars >>

\* lines 378-379: Ctrl+C ends the loop
Interrupt ==
    /\ pc \in {"tick", "callback", "sleep"}
    /\ pc' = "interrupted"
    /\ UNCHANGED << now, schedule, check_interval, trigger_window, auto_continue,
                    has_callback, last_triggered_games, current_monitoring_games,
                    next_games, callback_args, calls, last_outcome, cmg_before,
                    source_status, slept >>
    /\ UNCHANGED << caller_sink, windowVars, parseVars, sideVars >>

\* The provider adds or withdraws a fixture between two queries.
ProviderUpdate ==
    /\ pc \in {"tick", "callback", "sleep"}
    /\ \E g \in Universe :
         schedule' = IF g \in schedule THEN schedule \ {g} ELSE schedule \cup {g}
    /\ UNCHANGED << now, check_interval, trigger_window, auto_continue, has_callback,
                    last_triggered_games, current_monitoring_games, next_games, pc,
                    callback_args, calls, last_outcome, cmg_before, source_status, slept >>
    /\ UNCHANGED << caller_sink, windowVars, parseVars, sideVars >>

vars == << monitorVars, windowVars, parseVars, sideVars >>

Next ==
    \/ TickBegin
    \/ CallbackReturn
    \/ Sleep
    \/ Interrupt
    \/ ProviderUpdate

Spec == Init /\ [][Next]_vars

\* ---- is_game_within_trigger_window on its own -------------------------------
WindowGameTimes == {20, 80}
WindowSizes == {0, 1, 60}
MaxWindowNow == 85

MonitorIdle ==
    /\ now = 0
    /\ schedule = {}
    /\ check_interval = 1
    /\ trigger_window = 1
    /\ auto_continue = FALSE
    /\ has_callback = FALSE
    /\ caller_sink = "None"
    /\ last_triggered_games = {}
    /\ current_monitoring_games = NoneGames
    /\ next_games = {}
    /\ pc = "not_started"
    /\ callback_args = [games |-> {}, sink |-> "None"]
    /\ calls = << >>
    /\ last_outcome = "none"
    /\ cmg_before = NoneGames
    /\ source_status = "not_queried"
    /\ slept = 0

InitWindow ==
    /\ MonitorIdle
    /\ ParseIdle
    /\ SideIdle
    /\ win_in \in [game_time : WindowGameTimes, window : WindowSizes, now : 0..MaxWindowNow]
    /\ win_out = "none"

EvalWindow ==
    /\ win_out = "none"
    /\ win_out' = IF is_game_within_trigger_window(win_in.game_time, win_in.window, win_in.now)
                  THEN "True" ELSE "False"
    /\ UNCHANGED << win_in, monitorVars, parseVars, sideVars >>

NextWindow == EvalWindow

SpecWindow == InitWindow /\ [][NextWindow]_vars

\* ---- parse_game_time on its own ---------------------------------------------
\* A day is a count of days from a Monday, so that day % 7 is datetime.weekday().
\* Minutes and seconds are drawn from samples that hold both ends of the range.
MinuteSamples == {0, 20, 30, 59}
SecondSamples == {0, 59}
NowDays == 0..6
DayAbbrs == {"mon", "tue", "wed", "thu", "fri", "sat", "sun"}

\* line 35 as a bug would have it: an unknown abbreviation taken for Monday
Mutday_mapUnknownIsMonday(day_abbr) ==
    CASE day_abbr = "tue" -> 1
      [] day_abbr = "wed" -> 2
      [] day_abbr = "thu" -> 3
      [] day_abbr = "fri" -> 4
      [] day_abbr = "sat" -> 5
      [] day_abbr = "sun" -> 6
      [] OTHER -> 0
\* line 35: day_map
day_map(day_abbr) ==
    CASE day_abbr = "mon" -> 0
      [] day_abbr = "tue" -> 1
      [] day_abbr = "wed" -> 2
      [] day_abbr = "thu" -> 3
      [] day_abbr = "fri" -> 4
      [] day_abbr = "sat" -> 5
      [] day_abbr = "sun" -> 6
      [] OTHER -> -1

\* lines 27-32: 12-hour clock to 24-hour clock
To24Hour(hour, ampm) ==
    IF ampm = "pm" /\ hour # 12 THEN hour + 12
    ELSE IF ampm = "am" /\ hour = 12 THEN 0
    ELSE hour

\* lines 42-44: days until the next occurrence of the weekday
MutDaysAheadNoRollover(day_num, hour, minute, today) ==
    (day_num - (today.day % 7)) % 7
MutDaysAheadStrictMinute(day_num, hour, minute, today) ==
    LET days_ahead == (day_num - (today.day % 7)) % 7
    IN  IF days_ahead = 0
           /\ (hour < today.hour \/ (hour = today.hour /\ minute < today.minute))
        THEN 7
        ELSE days_ahead
DaysAhead(day_num, hour, minute, today) ==
    LET days_ahead == (day_num - (today.day % 7)) % 7
    IN  IF days_ahead = 0
           /\ (hour < today.hour \/ (hour = today.hour /\ minute <= today.minute))
        THEN 7
        ELSE days_ahead

ParseNone == [kind |-> "None", day |-> 0, hour |-> 0, minute |-> 0, second |-> 0]

\* str.lower() on the words the strings are made of
Lower(word) ==
    CASE word = "Thu" -> "thu"
      [] word = "AM" -> "am"
      [] word = "PM" -> "pm"
      [] OTHER -> word

\* line 20: re.match(r'(\w{3})\s+(\d{1,2}):(\d{2})([ap]m)', ...), case-sensitive.
\* A text of shape "match" is three word characters, blanks, one or two digits,
\* a colon, two digits and am/pm in either case; the other shapes have no
\* three-letter word and blank in front of the time.
MatchesDayTime(text) == text.shape = "match" /\ text.ampm \in {"am", "pm"}

\* lines 12-53: parse_game_time; `text` is the string as the regular expression of
\* line 20 sees it: empty, not matching, or matching with its four groups.
parse_game_time(text, today) ==
    IF text.shape = "empty" \/ ~MatchesDayTime(text)
    THEN ParseNone
    ELSE LET hour == To24Hour(text.hour, Lower(text.ampm))
             minute == text.minute
             day_num == day_map(Lower(text.day_abbr))
         IN  IF day_num = -1
             THEN ParseNone
             ELSE IF hour > 23 \/ minute > 59
                  THEN ParseNone      \* datetime.replace raises ValueError, line 51
                  ELSE [kind |-> "datetime",
                        day |-> today.day + DaysAhead(day_num, hour, minute, today),
                        hour |-> hour, minute |-> minute, second |-> 0]

\* seconds from the Monday 00:00:00 of day 0
Timestamp(d) == ((d.day * 24 + d.hour) * 60 + d.minute) * 60 + d.second

ValidWeekdayStrings ==
    [shape : {"match"}, day_abbr : DayAbbrs, hour : 1..12, minute : MinuteSamples,
     ampm : {"am", "pm"}]

InitParse ==
    /\ MonitorIdle
    /\ WindowIdle
    /\ SideIdle
    /\ parse_in \in ValidWeekdayStrings
    /\ parse_now \in [day : NowDays, hour : 0..23, minute : MinuteSamples,
                      second : SecondSamples]
    /\ parse_out = [kind |-> "pending", day |-> 0, hour |-> 0, minute |-> 0, second |-> 0]
    /\ date_out = [kind |-> "pending", day |-> 0, hour |-> 0, minute |-> 0, second |-> 0]

EvalParse ==
    /\ parse_out.kind = "pending"
    /\ parse_out' = parse_game_time(parse_in, parse_now)
    /\ UNCHANGED << parse_in, parse_now, date_out, monitorVars, windowVars, sideVars >>

NextParse == EvalParse

SpecParse == InitParse /\ [][NextParse]_vars

\* ---- properties -------------------------------------------------------------
NoKeyCalledTwice ==
    \A i, j \in DOMAIN calls : i # j => calls[i].slot_time # calls[j].slot_time

\* C1: within one run the callback is invoked at most once for every slot key
\* (game_time), whatever the ticks and the outcomes of the callbacks, also
\* while the slot stays inside the trigger window over several ticks.
C1_AtMostOncePerSlot ==
    \A t \in {g.game_time : g \in Universe} :
        Cardinality({i \in DOMAIN calls : calls[i].slot_time = t}) <= 1

\* a tick found the slot inside the window again after it had been passed to
\* the callback
C1_Witness ==
    /\ last_outcome = "already_triggered"
    /\ pc = "sleep"
    /\ \E i \in DOMAIN calls : calls[i].slot_time = FirstGameTime(next_games)

\* C2: at every invocation of the callback 0 <= slot_time - now <= trigger_window;
\* a slot in the past is never passed to the callback.
C2_CalledOnlyInsideWindow ==
    \A i \in DOMAIN calls :
        /\ 0 <= calls[i].slot_time - calls[i].at
        /\ calls[i].slot_time - calls[i].at <= trigger_window

\* the callback was invoked at the far edge of the window, and a slot had
\* expired unwatched before
C2_Witness ==
    /\ \E i \in DOMAIN calls : calls[i].slot_time - calls[i].at = trigger_window
    /\ \E g \in schedule : g.game_time < now /\ g.game_time \notin last_triggered_games

\* C3: is_within_window is true exactly when
\* slot_time - trigger_window <= now <= slot_time (both ends included).
C3_WindowInclusive ==
    win_out # "none" =>
        /\ (win_out = "True") <=>
              (win_in.game_time - win_in.window <= win_in.now /\ win_in.now <= win_in.game_time)
        /\ (win_in.window = 60 /\ win_in.game_time - win_in.now = 55) => win_out = "True"
        /\ (win_in.window = 60 /\ win_in.game_time - win_in.now = 80) => win_out = "False"
        /\ win_in.now = win_in.game_time => win_out = "True"
        /\ win_in.now = win_in.game_time - win_in.window => win_out = "True"
        /\ win_in.now = win_in.game_time + 1 => win_out = "False"
        /\ win_in.now = win_in.game_time - win_in.window - 1 => win_out = "False"

\* the evaluation at the far end of a 60 minute window
C3_Witness ==
    /\ win_out = "True"
    /\ win_in.window = 60
    /\ win_in.now = win_in.game_time - 60

\* C4 as claimed: after a tick whose callback reported success the stored watch
\* set is None.
C4_NoneAfterSuccess ==
    (pc = "sleep" /\ last_outcome = "success" /\ auto_continue)
        => current_monitoring_games.isNone

\* C4 amended: in the tick whose callback reported success (auto_continue on) the
\* stored watch set is replaced by the earliest slot of a fresh schedule query
\* that lies strictly after the triggered slot, and is None when there is none.
C4_NextSlotAfterSuccess ==
    [][ (pc = "callback" /\ last_outcome' = "success" /\ auto_continue) =>
          LET triggered == FirstGameTime(callback_args.games)
              later == {g \in schedule : g.game_time > triggered /\ g.game_time >= now'}
              watch == current_monitoring_games'
          IN  /\ pc' = "sleep"
              /\ later = {} => watch.isNone
              /\ ~watch.isNone =>
                    /\ watch.games # {}
                    /\ watch.games = {g \in later : \A h \in later : g.game_time <= h.game_time}
    ]_vars

C4_Witness ==
    /\ pc = "sleep"
    /\ last_outcome = "success"
    /\ auto_continue
    /\ ~current_monitoring_games.isNone
    /\ FirstGameTime(current_monitoring_games.games) > FirstGameTime(callback_args.games)

\* C5 as claimed: after a tick whose callback returned failure the stored watch
\* set is what it was before the tick.
C5_WatchSetAsBeforeTick ==
    (pc = "sleep" /\ last_outcome = "failure") => current_monitoring_games = cmg_before

\* C5 amended: a callback that returns failure leaves the stored watch set as it
\* was when the callback was invoked (after the slot selection of that tick), the
\* key stays in last_triggered_games, the loop goes on to the sleep, and the
\* callback is never invoked twice for a key.
C5_FailureKeepsWatchSet ==
    /\ [][ (pc = "callback" /\ last_outcome' = "failure") =>
              /\ current_monitoring_games' = current_monitoring_games
              /\ FirstGameTime(callback_args.games) \in last_triggered_games'
              /\ pc' = "sleep"
       ]_vars
    /\ [][ last_triggered_games \subseteq last_triggered_games' ]_vars
    /\ [] NoKeyCalledTwice

\* the callback of a slot adopted in the same tick returned failure: the slot
\* stays the stored watch set
C5_Witness ==
    /\ last_outcome = "failure"
    /\ pc = "sleep"
    /\ auto_continue
    /\ ~current_monitoring_games.isNone
    /\ current_monitoring_games # cmg_before
    /\ current_monitoring_games.games = callback_args.games

\* C6: every tick ends in the sleep, and a tick begins only after a sleep of
\* exactly check_interval, whatever the tick did.
C6_SleepBetweenTicks ==
    [][ /\ (pc \in {"tick", "callback"} /\ pc' \notin {"tick", "callback", "interrupted"})
            => pc' = "sleep"
        /\ (pc' = "tick" /\ pc # "tick")
            => (pc = "sleep" /\ slept' = check_interval /\ now' = now + check_interval)
    ]_vars

\* a tick whose callback raised was followed by the sleep
C6_Witness ==
    /\ pc = "tick"
    /\ last_outcome = "raised"
    /\ slept = check_interval
    /\ now >= check_interval + calls[Len(calls)].at

\* C7: the callback of a slot receives all games of the watched slot, in one
\* invocation per slot.
C7_WholeSlotInOneCall ==
    /\ pc = "callback" =>
          /\ callback_args.games = next_games
          /\ calls[Len(calls)].args.games = next_games
    /\ \A i \in DOMAIN calls :
          /\ calls[i].args.games # {}
          /\ \A g \in calls[i].args.games : g.game_time = calls[i].slot_time
    /\ NoKeyCalledTwice

\* the two simultaneous games are passed to the callback together
C7_Witness ==
    /\ pc = "callback"
    /\ Cardinality(callback_args.games) = 2

\* C8: a tick whose schedule query yields no games ends without an invocation of
\* the callback, with the stored watch set None, in the sleep.
C8_EmptyScheduleNonFatal ==
    (source_status \in {"empty", "failed"} /\ pc \in {"sleep", "callback", "crashed"}) =>
        /\ pc = "sleep"
        /\ next_games = {}
        /\ last_outcome = "no_games"
        /\ current_monitoring_games = NoneGames

\* the watched slot expired, the provider had nothing after it
C8_Witness ==
    /\ source_status = "empty"
    /\ pc = "sleep"
    /\ ~cmg_before.isNone

\* C9: an exception inside a tick never ends the loop; only the interrupt does.
C9_LoopSurvivesExceptions ==
    /\ pc \in {"tick", "callback", "sleep", "interrupted"}
    /\ last_outcome = "raised" => pc \in {"sleep", "tick", "interrupted"}
    /\ source_status = "failed" => pc \in {"sleep", "tick", "interrupted"}

\* the tick after the one whose callback raised has begun
C9_Witness ==
    /\ pc = "tick"
    /\ last_outcome = "raised"
    /\ Len(calls) = 2

\* C10: for a valid weekday string parse returns a timestamp >= now.
C10_ParseNotInPast ==
    parse_out.kind # "pending" =>
        /\ parse_out.kind = "datetime"
        /\ Timestamp(parse_out) >= Timestamp(parse_now)

\* the weekday is today and the minute is the current one: a week ahead
C10_Witness ==
    /\ parse_out.kind = "datetime"
    /\ parse_out.day = parse_now.day + 7
    /\ parse_out.hour = parse_now.hour
    /\ parse_out.minute = parse_now.minute
    /\ parse_now.second > 0

\* C11: for a weekday+time string parse returns the first occurrence of that
\* weekday at that time strictly after now: 0 to 6 days ahead when that
\* occurrence is in the future, 7 days ahead when the weekday is today and the
\* time has passed or is the current time.
C11_FirstOccurrenceAfterNow ==
    parse_out.kind # "pending" =>
        LET ahead == parse_out.day - parse_now.day
            today_at == [day |-> parse_now.day, hour |-> parse_out.hour,
                         minute |-> parse_out.minute, second |-> 0]
            same_weekday == day_map(parse_in.day_abbr) = parse_now.day % 7
        IN  /\ parse_out.kind = "datetime"
            /\ parse_out.day % 7 = day_map(parse_in.day_abbr)
            /\ parse_out.hour = (parse_in.hour % 12) + (IF parse_in.ampm = "pm" THEN 12 ELSE 0)
            /\ parse_out.minute = parse_in.minute
            /\ parse_out.second = 0
            /\ Timestamp(parse_out) > Timestamp(parse_now)
            /\ Timestamp(parse_out) - 7 * 24 * 3600 <= Timestamp(parse_now)
            /\ ahead \in 0..7
            /\ ahead = 7 <=> (same_weekday /\ Timestamp(today_at) <= Timestamp(parse_now))
            /\ (parse_now.day % 7 = 3 /\ parse_now.hour = 18 /\ parse_now.minute = 0
                /\ parse_now.second = 0 /\ parse_in.day_abbr = "thu" /\ parse_in.ampm = "pm")
               => /\ (parse_in.hour = 7 /\ parse_in.minute = 20)
                      => (ahead = 0 /\ parse_out.hour = 19 /\ parse_out.minute = 20)
                  /\ (parse_in.hour = 5 /\ parse_in.minute = 0)
                      => (ahead = 7 /\ parse_out.hour = 17 /\ parse_out.minute = 0)

\* Thursday 18:00:00, "thu 5:00pm": the following Thursday 17:00
C11_Witness ==
    /\ parse_now = [day |-> 3, hour |-> 18, minute |-> 0, second |-> 0]
    /\ parse_in = [shape |-> "match", day_abbr |-> "thu", hour |-> 5, minute |-> 0, ampm |-> "pm"]
    /\ parse_out = [kind |-> "datetime", day |-> 10, hour |-> 17, minute |-> 0, second |-> 0]

\* ---- the two parsers on every shape of string -------------------------------
\* NFLStatsFetcher.parse_game_date, line 110: 'm' in s and 's' in s and a digit
CountdownLike(text) ==
    \/ text.shape = "countdown"
    \/ /\ text.shape \in {"match", "time_only"}
       /\ (text.ampm \in {"am", "pm"} \/ text.day_abbr = "mon")
       /\ text.day_abbr \in {"sat", "sun"}

\* lines 155-159: today at the given time, a day later when that is before now
MutTimeOnlyTomorrowIfNotAfter(game_ts, today_ts) == IF game_ts <= today_ts THEN 1 ELSE 0
TimeOnlyDaysAhead(game_ts, today_ts) == IF game_ts < today_ts THEN 1 ELSE 0

\* lines 106-168
parse_game_date(text, today) ==
    IF CountdownLike(text)
    THEN [kind |-> "date", day |-> today.day, hour |-> 0, minute |-> 0, second |-> 0]
    ELSE IF text.shape = "match"
    THEN LET hour == To24Hour(text.hour, Lower(text.ampm))
             minute == text.minute
             day_num == day_map(Lower(text.day_abbr))
         IN  IF day_num = -1 \/ hour > 23 \/ minute > 59
             THEN ParseNone
             ELSE [kind |-> "datetime",
                   day |-> today.day + DaysAhead(day_num, hour, minute, today),
                   hour |-> hour, minute |-> minute, second |-> 0]
    ELSE IF text.shape = "time_only"
    THEN LET hour == To24Hour(text.hour, Lower(text.ampm))
             minute == text.minute
             game_date == [day |-> today.day, hour |-> hour, minute |-> minute, second |-> 0]
         IN  IF hour > 23 \/ minute > 59
             THEN ParseNone
             ELSE [kind |-> "datetime",
                   day |-> today.day + TimeOnlyDaysAhead(Timestamp(game_date), Timestamp(today)),
                   hour |-> hour, minute |-> minute, second |-> 0]
    ELSE ParseNone

AnyStrings ==
    [shape : {"empty", "other", "countdown"}, day_abbr : {""}, hour : {0}, minute : {0},
     ampm : {""}]
    \cup [shape : {"time_only"}, day_abbr : {""}, hour : 1..12, minute : MinuteSamples,
          ampm : {"am", "pm", "PM"}]
    \cup [shape : {"match"}, day_abbr : {"thu", "Thu", "sun", "xyz"}, hour : {7, 12, 13},
          minute : {20, 75}, ampm : {"am", "pm", "PM"}]

InitParseAny ==
    /\ MonitorIdle
    /\ WindowIdle
    /\ SideIdle
    /\ parse_in \in AnyStrings
    /\ parse_now \in [day : {3}, hour : 0..23, minute : MinuteSamples, second : SecondSamples]
    /\ parse_out = [kind |-> "pending", day |-> 0, hour |-> 0, minute |-> 0, second |-> 0]
    /\ date_out = [kind |-> "pending", day |-> 0, hour |-> 0, minute |-> 0, second |-> 0]

EvalParseDate ==
    /\ date_out.kind = "pending"
    /\ date_out' = parse_game_date(parse_in, parse_now)
    /\ UNCHANGED << parse_in, parse_now, parse_out, monitorVars, windowVars, sideVars >>

NextParseAny ==
    \/ EvalParse
    \/ EvalParseDate

SpecParseAny == InitParseAny /\ [][NextParseAny]_vars

\* C12: parse returns None, and no exception, for the empty string, for a string
\* that does not match the accepted format and for an unknown weekday
\* abbreviation; a valid string gives a datetime, which None is not.
C12_ParseFailureIsNone ==
    parse_out.kind # "pending" =>
        /\ parse_out.kind \in {"None", "datetime"}
        /\ (\/ parse_in.shape \in {"empty", "other", "countdown", "time_only"}
            \/ parse_in.ampm \notin {"am", "pm"}
            \/ Lower(parse_in.day_abbr) \notin DayAbbrs) => parse_out.kind = "None"
        /\ (/\ parse_in.shape = "match"
            /\ parse_in.ampm \in {"am", "pm"}
            /\ Lower(parse_in.day_abbr) \in DayAbbrs
            /\ parse_in.hour \in 1..12
            /\ parse_in.minute \in 0..59) => parse_out.kind = "datetime"

\* "xyz 7:20pm": the format fits, the weekday is unknown
C12_Witness ==
    /\ parse_out.kind = "None"
    /\ parse_in.shape = "match"
    /\ parse_in.day_abbr = "xyz"
    /\ parse_in.ampm = "pm"
    /\ parse_in.minute = 20

\* C13 as claimed, of the scheduler's parser (parse_game_time): a string with no
\* weekday is accepted and resolved to today or tomorrow.
C13_ParserAcceptsTimeOnly ==
    (parse_in.shape = "time_only" /\ parse_out.kind # "pending") =>
        /\ parse_out.kind = "datetime"
        /\ parse_out.day \in {parse_now.day, parse_now.day + 1}

\* C13 amended: NFLStatsFetcher.parse_game_date resolves '<h>:<mm><am|pm>' to
\* today at that time when that is not before now and to the next day when it is
\* before now; parse_game_time of the scheduler returns None for such a string.
C13_TimeOnlyTodayOrTomorrow ==
    parse_in.shape = "time_only" =>
        /\ date_out.kind # "pending" =>
              LET today_at == [day |-> parse_now.day, hour |-> date_out.hour,
                               minute |-> date_out.minute, second |-> 0]
              IN  /\ date_out.kind = "datetime"
                  /\ date_out.hour = (parse_in.hour % 12)
                                       + (IF parse_in.ampm \in {"pm", "PM"} THEN 12 ELSE 0)
                  /\ date_out.minute = parse_in.minute
                  /\ date_out.second = 0
                  /\ Timestamp(today_at) >= Timestamp(parse_now) => date_out.day = parse_now.day
                  /\ Timestamp(today_at) < Timestamp(parse_now) => date_out.day = parse_now.day + 1
        /\ parse_out.kind # "pending" => parse_out.kind = "None"

\* the time is now to the second: today; and the scheduler's parser has refused
C13_Witness ==
    /\ parse_in.shape = "time_only"
    /\ date_out.kind = "datetime"
    /\ parse_out.kind = "None"
    /\ date_out.day = parse_now.day
    /\ date_out.hour = parse_now.hour
    /\ date_out.minute = parse_now.minute
    /\ parse_now.second = 0

\* C14: the slot taken from a non-empty set of upcoming games is all the games at
\* the earliest game_time and no later game; from an empty set it is empty.
C14_SlotIsEarliestGroup ==
    [][ (pc = "tick" /\ current_monitoring_games.isNone /\ pc' \in {"sleep", "callback"}
         /\ source_status' # "failed") =>
          LET upcoming == {g \in schedule : g.game_time > now}
          IN  /\ upcoming = {} => next_games' = {}
              /\ upcoming # {} =>
                    /\ next_games' # {}
                    /\ next_games' \subseteq upcoming
                    /\ \A g \in next_games' : \A h \in upcoming : g.game_time <= h.game_time
                    /\ \A h \in upcoming :
                          (\E g \in next_games' : h.game_time = g.game_time) => h \in next_games'
    ]_vars

\* games at T, T and T+2 listed: the slot is the two games at T
C14_Witness ==
    /\ pc \in {"sleep", "callback"}
    /\ cmg_before.isNone
    /\ source_status = "games"
    /\ Cardinality(next_games) = 2
    /\ \E g \in schedule : g.game_time > FirstGameTime(next_games)
    /\ now < FirstGameTime(next_games)

\* C15: no game with game_time equal to now or earlier is part of the slot a tick
\* takes from the schedule source.
C15_SlotStrictlyAfterNow ==
    (pc \in {"sleep", "callback"}
     /\ last_outcome \in {"calling", "waiting", "already_triggered", "no_callback"})
        => \A g \in next_games : g.game_time > now

\* C18 as claimed: the sink argument of every invocation is the handle the caller
\* of the scheduler holds.
C18_SinkIsCallersHandle ==
    \A i \in DOMAIN calls : calls[i].args.sink = caller_sink

\* C18 amended: the scheduler takes no sink handle; the sink argument of every
\* invocation is None, whatever handle its caller holds.
C18_SinkIsNone ==
    /\ \A i \in DOMAIN calls : calls[i].args.sink = "None"
    /\ pc = "callback" => callback_args.sink = "None"

C18_Witness ==
    /\ pc = "callback"
    /\ caller_sink = "sheets_service"
    /\ callback_args.sink = "None"

\* C20: the key is in last_triggered_games when the callback is invoked; a
\* callback that raises leaves it there, and the callback is not invoked again
\* for that key.
C20_MarkBeforeCall ==
    /\ [] (pc = "callback" => FirstGameTime(callback_args.games) \in last_triggered_games)
    /\ [][ (pc = "callback" /\ last_outcome' = "raised") =>
              /\ last_triggered_games' = last_triggered_games
              /\ pc' = "sleep"
       ]_vars
    /\ [][ (last_outcome = "raised" /\ pc = "tick" /\ calls # << >>) =>
              \A i \in DOMAIN calls' :
                  i > Len(calls) => calls'[i].slot_time # calls[Len(calls)].slot_time
       ]_vars
    /\ [] NoKeyCalledTwice

\* the callback raised; at the next tick the slot is still ahead and inside the
\* window, and its key is marked
C20_Witness ==
    /\ pc = "tick"
    /\ last_outcome = "raised"
    /\ calls[Len(calls)].slot_time \in last_triggered_games
    /\ calls[Len(calls)].slot_time > now
    /\ is_game_within_trigger_window(calls[Len(calls)].slot_time, trigger_window, now)
    /\ \E g \in schedule : g.game_time = calls[Len(calls)].slot_time

\* ---- get_nfl_game_times and its module-level cache ------------------------------
\* (src/visit_prizepicks.py).  Dates are day numbers.
MaxDate == 2

\* The rows nfl.import_schedules can list: one game on day 0, two on day 1, one
\* on day 2.  No matchup occurs twice on one day, so the dict of line 59 never
\* overwrites a key.
CacheRows ==
    { [gameday |-> 0, away_team |-> "DAL", home_team |-> "PHI", gametime |-> "13:00"],
      [gameday |-> 1, away_team |-> "KC",  home_team |-> "LAC", gametime |-> "16:25"],
      [gameday |-> 1, away_team |-> "TB",  home_team |-> "ATL", gametime |-> "20:20"],
      [gameday |-> 2, away_team |-> "MIN", home_team |-> "CHI", gametime |-> "13:00"] }

\* what nfl.import_schedules does on one call: it raises, or returns a frame
ProviderAnswers ==
    { [raises |-> TRUE, frame |-> {}] } \cup [raises : {FALSE}, frame : SUBSET CacheRows]

\* lines 59-72: both orders of the two teams map to the gametime
GameTimes(today_games) ==
    { [key |-> << g.away_team, g.home_team >>, gametime |-> g.gametime] : g \in today_games }
        \cup
    { [key |-> << g.home_team, g.away_team >>, gametime |-> g.gametime] : g \in today_games }

\* line 37: `if _nfl_game_times_cache and _nfl_cache_date == current_date`; an
\* empty dict is falsy
CacheHit(cache, cache_date, current_date) ==
    /\ ~cache.isNone
    /\ cache.items # {}
    /\ cache_date = {current_date}

\* get_nfl_game_times: what it returns, what it leaves in the two globals, and
\* whether it called the provider
get_nfl_game_times(cache, cache_date, current_date, answer) ==
    IF CacheHit(cache, cache_date, current_date)
    THEN [ret |-> cache, cache |-> cache, cache_date |-> cache_date,
          provider_called |-> FALSE]
    ELSE IF answer.raises \/ answer.frame = {}
    THEN [ret |-> DictOf({}), cache |-> cache, cache_date |-> cache_date,
          provider_called |-> TRUE]
    ELSE LET today_games == {g \in answer.frame : g.gameday = current_date}
         IN  IF today_games = {}
             THEN [ret |-> DictOf({}), cache |-> DictOf({}),
                   cache_date |-> {current_date}, provider_called |-> TRUE]
             ELSE [ret |-> DictOf(GameTimes(today_games)),
                   cache |-> DictOf(GameTimes(today_games)),
                   cache_date |-> {current_date}, provider_called |-> TRUE]

InitCache ==
    /\ MonitorIdle
    /\ WindowIdle
    /\ ParseIdle
    /\ ExtraIdle
    /\ SequentialIdle
    /\ OrderIdle
    /\ CacheIdle

CallGetNflGameTimes ==
    \E answer \in ProviderAnswers :
        LET r == get_nfl_game_times(nfl_game_times_cache, nfl_cache_date, cache_today, answer)
        IN  /\ nfl_game_times_cache' = r.cache
            /\ nfl_cache_date' = r.cache_date
            /\ cache_call' = [kind |-> "call", date |-> cache_today,
                              prior_response |-> cache_today \in cache_obtained,
                              cached_before |-> nfl_game_times_cache,
                              date_before |-> nfl_cache_date,
                              provider_called |-> r.provider_called, ret |-> r.ret]
            /\ cache_obtained' = IF r.provider_called /\ ~answer.raises /\ answer.frame # {}
                                 THEN cache_obtained \cup {cache_today}
                                 ELSE cache_obtained
            /\ UNCHANGED << cache_today, monitorVars, windowVars, parseVars, seqVars,
                            orderVars,
                    extraVars >>

\* midnight passes
NextDate ==
    /\ cache_today < MaxDate
    /\ cache_today' = cache_today + 1
    /\ UNCHANGED << nfl_game_times_cache, nfl_cache_date, cache_obtained, cache_call,
                    monitorVars, windowVars, parseVars, seqVars, orderVars,
                    extraVars >>

NextCache ==
    \/ CallGetNflGameTimes
    \/ NextDate

SpecCache == InitCache /\ [][NextCache]_vars

\* C16: the schedule cache is valid per calendar date: once the provider has
\* returned schedule data on date D, a later call on date D returns the cached value without
\* calling the provider, and a call on a date other than the cache's date calls the
\* provider afresh.
C16_CacheValidPerDate ==
    cache_call.kind = "call" =>
        /\ cache_call.prior_response =>
               /\ ~cache_call.provider_called
               /\ cache_call.ret = cache_call.cached_before
        /\ cache_call.date_before # {cache_call.date} => cache_call.provider_called

\* ---- run_sequential_scraping_callback and the choice of the callback ------------
\* What one scraper step can do: run_monitoring_scraping returns True or False, or
\* the step (its import included) raises.
ScraperOutcomes == {"True", "False", "raised"}

\* lines 458-466 and 477-485: a falsy return and an exception both clear
\* overall_success; nothing sets it again
MutOverallLastWins(overall, outcome) == outcome = "True"
OverallAfter(overall, outcome) == overall /\ outcome = "True"

\* run_monitoring_session lines 516-527: the callback handed to monitor_nfl_games
DefaultCallback(supplied, use_sequential_scraping, import_ok) ==
    IF supplied # "None"
    THEN supplied
    ELSE IF use_sequential_scraping
         THEN "run_sequential_scraping_callback"
         ELSE IF import_ok
              THEN "visit_prizepicks.run_monitoring_scraping"
              ELSE "None"

\* the arguments a scraper step receives
ScraperCall(scraper) ==
    [scraper |-> scraper, games |-> games_info, sink |-> sheets_service]

\* lines 454-466 and 473-485: where the callback goes after a step, whatever the
\* step did; each step's try catches what the scraper raises, so the next
\* statement runs
MutRaisePropagates(step, outcome) ==
    IF outcome = "raised"
    THEN "propagated"
    ELSE IF step = "start" THEN "step2" ELSE "returned"
AfterStep(step, outcome) == IF step = "start" THEN "step2" ELSE "returned"

\* The loop calls the callback only with a non-empty next_games (line 308); the
\* function itself takes any list, the empty one included.
InitSequential ==
    /\ MonitorIdle
    /\ WindowIdle
    /\ ParseIdle
    /\ ExtraIdle
    /\ CacheIdle
    /\ OrderIdle
    /\ games_info \in SUBSET Universe
    /\ sheets_service \in {"None", "sheets_service"}
    /\ scraping_callback \in
           { DefaultCallback(supplied, use_sequential_scraping, import_ok) :
                 supplied \in {"None", "custom_callback"},
                 use_sequential_scraping \in BOOLEAN,
                 import_ok \in BOOLEAN }
    /\ seq_pc = "start"
    /\ overall_success = TRUE
    /\ prizepicks_success = "pending"
    /\ underdog_success = "pending"
    /\ scraper_log = << >>

\* line 443: the banner reads games_info[0] before any try; on an empty list the
\* IndexError leaves the callback without a scraper having run
SequentialEmptySlot ==
    /\ scraping_callback = "run_sequential_scraping_callback"
    /\ seq_pc = "start"
    /\ games_info = {}
    /\ seq_pc' = "propagated"
    /\ UNCHANGED << games_info, sheets_service, scraping_callback, overall_success,
                    prizepicks_success, underdog_success, scraper_log,
                    monitorVars, windowVars, parseVars, cacheVars, orderVars,
                    extraVars >>

\* lines 441-466: step 1, the PrizePicks scraper
SequentialPrizePicks ==
    /\ scraping_callback = "run_sequential_scraping_callback"
    /\ seq_pc = "start"
    /\ games_info # {}
    /\ \E outcome \in ScraperOutcomes :
           /\ prizepicks_success' = outcome
           /\ overall_success' = OverallAfter(TRUE, outcome)
           /\ seq_pc' = AfterStep("start", outcome)
    /\ scraper_log' = Append(scraper_log, ScraperCall("visit_prizepicks"))
    /\ UNCHANGED << games_info, sheets_service, scraping_callback, underdog_success,
                    monitorVars, windowVars, parseVars, cacheVars, orderVars,
                    extraVars >>

\* lines 468-497: step 2, the Underdog scraper, and the return of overall_success
SequentialUnderdog ==
    /\ scraping_callback = "run_sequential_scraping_callback"
    /\ seq_pc = "step2"
    /\ \E outcome \in ScraperOutcomes :
           /\ underdog_success' = outcome
           /\ overall_success' = OverallAfter(overall_success, outcome)
           /\ seq_pc' = AfterStep("step2", outcome)
    /\ scraper_log' = Append(scraper_log, ScraperCall("visit_underdog"))
    /\ UNCHANGED << games_info, sheets_service, scraping_callback, prizepicks_success,
                    monitorVars, windowVars, parseVars, cacheVars, orderVars,
                    extraVars >>

\* use_sequential_scraping = False: visit_prizepicks.run_monitoring_scraping alone;
\* it catches its exceptions and returns True or False
SinglePrizePicks ==
    /\ scraping_callback = "visit_prizepicks.run_monitoring_scraping"
    /\ seq_pc = "start"
    /\ \E outcome \in {"True", "False"} :
           /\ prizepicks_success' = outcome
           /\ overall_success' = (outcome = "True")
    /\ scraper_log' = Append(scraper_log, ScraperCall("visit_prizepicks"))
    /\ seq_pc' = "returned"
    /\ UNCHANGED << games_info, sheets_service, scraping_callback, underdog_success,
                    monitorVars, windowVars, parseVars, cacheVars, orderVars,
                    extraVars >>

NextSequential ==
    \/ SequentialEmptySlot
    \/ SequentialPrizePicks
    \/ SequentialUnderdog
    \/ SinglePrizePicks

SpecSequential == InitSequential /\ [][NextSequential]_vars

\* C17: the sequential callback runs the PrizePicks scraper and then the Underdog
\* scraper, whatever the first one did, and returns success exactly when both
\* returned success; a failure or an exception of either makes the result failure.
C17_BothMustSucceed ==
    scraping_callback = "run_sequential_scraping_callback" =>
        /\ seq_pc = "step2" => scraper_log = << ScraperCall("visit_prizepicks") >>
        /\ seq_pc = "returned" =>
               /\ scraper_log = << ScraperCall("visit_prizepicks"),
                                   ScraperCall("visit_underdog") >>
               /\ overall_success <=>
                      (prizepicks_success = "True" /\ underdog_success = "True")

C17_Witness ==
    /\ scraping_callback = "run_sequential_scraping_callback"
    /\ seq_pc = "returned"
    /\ prizepicks_success = "raised"
    /\ underdog_success = "True"
    /\ ~overall_success
    /\ Len(scraper_log) = 2

\* ---- the order of the schedule lists --------------------------------------------
\* The provider's frame as a sequence of rows: every order of every selection of
\* the fixtures.
OrderRows ==
    { rows \in UNION { [1..n -> Universe] : n \in 0..Cardinality(Universe) } :
          \A i, j \in DOMAIN rows : i # j => rows[i] # rows[j] }

\* get_nfl_schedule_2025 on a frame given row by row: lines 78-144 append the rows
\* that are not before current_time in the order of iterrows, and line 149
\* returns the list as built
get_nfl_schedule_2025_rows(provider_ok, rows, current_time) ==
    IF ~provider_ok \/ rows = << >>
    THEN << >>
    ELSE SelectSeq(rows, LAMBDA g : ~(g.game_time < current_time))

\* list.sort(key=game_time): ascending, and stable (equal keys keep their order)
RECURSIVE InsertByGameTime(_, _)
InsertByGameTime(sorted, g) ==
    IF sorted = << >>
    THEN << g >>
    ELSE IF g.game_time < Head(sorted).game_time
         THEN << g >> \o sorted
         ELSE << Head(sorted) >> \o InsertByGameTime(Tail(sorted), g)
RECURSIVE SortByGameTime(_)
SortByGameTime(games) ==
    IF games = << >>
    THEN << >>
    ELSE InsertByGameTime(SortByGameTime(SubSeq(games, 1, Len(games) - 1)),
                          games[Len(games)])

\* get_next_nfl_games lines 166-192: upcoming_games after the loop and the sort
MutUpcomingUnsorted(fetched, current_time) ==
    SelectSeq(fetched, LAMBDA g : ~(g.game_time <= current_time))
UpcomingSorted(fetched, current_time) ==
    SortByGameTime(SelectSeq(fetched, LAMBDA g : ~(g.game_time <= current_time)))

\* lines 195-203: the games at the game_time of upcoming_games[0]
NextSlotOf(upcoming) ==
    IF upcoming = << >>
    THEN << >>
    ELSE SelectSeq(upcoming, LAMBDA g : g.game_time = upcoming[1].game_time)

InitOrder ==
    /\ MonitorIdle
    /\ WindowIdle
    /\ ParseIdle
    /\ ExtraIdle
    /\ CacheIdle
    /\ SequentialIdle
    /\ provider_rows \in OrderRows
    /\ order_now \in 0..MaxTime
    /\ fetched_all_games = NotYet
    /\ sorted_upcoming_games = NotYet
    /\ slot_games = NotYet

\* a call of get_nfl_schedule_2025
FetchSchedule ==
    /\ ~fetched_all_games.done
    /\ \E provider_ok \in BOOLEAN :
           fetched_all_games' =
               Produced(get_nfl_schedule_2025_rows(provider_ok, provider_rows, order_now))
    /\ UNCHANGED << provider_rows, order_now, sorted_upcoming_games, slot_games,
                    monitorVars, windowVars, parseVars, cacheVars, seqVars,
                    extraVars >>

\* a call of get_next_nfl_games, which fetches the schedule itself
NextGames ==
    /\ ~sorted_upcoming_games.done
    /\ \E provider_ok \in BOOLEAN :
           LET fetched == get_nfl_schedule_2025_rows(provider_ok, provider_rows, order_now)
               upcoming == UpcomingSorted(fetched, order_now)
           IN  /\ sorted_upcoming_games' = Produced(upcoming)
               /\ slot_games' = Produced(NextSlotOf(upcoming))
    /\ UNCHANGED << provider_rows, order_now, fetched_all_games,
                    monitorVars, windowVars, parseVars, cacheVars, seqVars,
                    extraVars >>

NextOrder ==
    \/ FetchSchedule
    \/ NextGames

SpecOrder == InitOrder /\ [][NextOrder]_vars

IsAscending(games) ==
    \A i \in 1..(Len(games) - 1) : games[i].game_time <= games[i + 1].game_time
PositionIn(rows, g) == CHOOSE i \in DOMAIN rows : rows[i] = g
InRowOrder(games, rows) ==
    \A i, j \in DOMAIN games :
        i < j => PositionIn(rows, games[i]) < PositionIn(rows, games[j])
ElementsOf(games) == { games[i] : i \in DOMAIN games }

\* C19 as stated: the list get_nfl_schedule_2025 returns is ascending by game
\* time, for every order in which the provider lists the fixtures.
C19_FetchedAscending ==
    fetched_all_games.done => IsAscending(fetched_all_games.list)

\* C19 amended: get_nfl_schedule_2025 returns the games that are not past in the
\* provider's order; the list get_next_nfl_games builds from it is ascending by
\* game time, for every provider order, holds each fetched game later than now
\* once, and the returned slot is its leading group.
C19_SortedBeforeSelection ==
    /\ fetched_all_games.done =>
           /\ InRowOrder(fetched_all_games.list, provider_rows)
           /\ \A g \in ElementsOf(fetched_all_games.list) : g.game_time >= order_now
    /\ sorted_upcoming_games.done =>
           /\ IsAscending(sorted_upcoming_games.list)
           /\ ElementsOf(sorted_upcoming_games.list) \subseteq
                  { g \in ElementsOf(provider_rows) : g.game_time > order_now }
           /\ Len(sorted_upcoming_games.list) =
                  Cardinality(ElementsOf(sorted_upcoming_games.list))
           /\ sorted_upcoming_games.list # << >> =>
                  ElementsOf(slot_games.list) =
                      { g \in ElementsOf(sorted_upcoming_games.list) :
                            g.game_time = MinTime(ElementsOf(sorted_upcoming_games.list)) }

C19_Witness ==
    /\ fetched_all_games.done
    /\ ~IsAscending(fetched_all_games.list)
    /\ sorted_upcoming_games.done
    /\ Len(sorted_upcoming_games.list) >= 3
    /\ sorted_upcoming_games.list # MutUpcomingUnsorted(fetched_all_games.list, order_now)
    /\ Len(slot_games.list) = 2

\* ---- the loop: exceptions, slot selection, provider changes and errors ----------
\* C21: a callback that raises has the same effect on the loop as one that returns
\* failure: the exception is caught inside the tick, the stored watch set and
\* last_triggered_games are left as they were at the call, the key of the slot stays
\* in last_triggered_games, and the loop goes on to the sleep.
C21_RaiseIsFailure ==
    [][ (pc = "callback" /\ last_outcome' \in {"raised", "failure"}) =>
            /\ current_monitoring_games' = current_monitoring_games
            /\ last_triggered_games' = last_triggered_games
            /\ FirstGameTime(callback_args.games) \in last_triggered_games'
            /\ next_games' = next_games
            /\ calls' = calls
            /\ pc' = "sleep"
    ]_vars

\* the callback of a stored slot raised, and the tick after the sleep has begun
C21_Witness ==
    /\ last_outcome = "raised"
    /\ pc = "tick"
    /\ now > calls[Len(calls)].at
    /\ ~current_monitoring_games.isNone
    /\ current_monitoring_games.games = callback_args.games
    /\ FirstGameTime(callback_args.games) \in last_triggered_games

EarliestOf(games) == {g \in games : g.game_time = MinTime(games)}
WatchKept == Truthy(current_monitoring_games)
                 /\ FirstGameTime(current_monitoring_games.games) > now
TickSelects == pc = "tick" /\ pc' \in {"sleep", "callback"}

\* C22 as stated: a stored slot strictly after now is kept without a query;
\* otherwise (nothing stored, or the stored slot not strictly after now) the source
\* is queried and the earliest slot strictly after now becomes the stored watch set,
\* None when there is none.
C22_AdoptsEarliestAfterNow ==
    [][ TickSelects =>
          LET upcoming == {g \in schedule : g.game_time > now}
          IN  IF WatchKept
              THEN /\ source_status' = "not_queried"
                   /\ current_monitoring_games' = current_monitoring_games
              ELSE /\ source_status' # "not_queried"
                   /\ source_status' # "failed" =>
                          current_monitoring_games' =
                              IF upcoming = {} THEN NoneGames
                                               ELSE ListOf(EarliestOf(upcoming))
    ]_vars

\* C22 amended: a stored slot strictly after now is kept, and is the slot of the
\* tick, without a query.  With nothing stored the source is queried and the
\* earliest slot strictly after now is the slot of the tick, but nothing is stored.
\* With a stored slot that is not strictly after now the source is queried and the
\* earliest slot that is later than the stored one and not before now is stored and
\* is the slot of the tick; None is stored when there is none.
C22_SelectionByCase ==
    [][ TickSelects =>
          LET upcoming == {g \in schedule : g.game_time > now}
              stored == FirstGameTime(current_monitoring_games.games)
              later == {g \in schedule : g.game_time > stored /\ g.game_time >= now}
          IN  IF WatchKept
              THEN /\ source_status' = "not_queried"
                   /\ current_monitoring_games' = current_monitoring_games
                   /\ next_games' = current_monitoring_games.games
              ELSE IF current_monitoring_games.isNone
              THEN /\ source_status' # "not_queried"
                   /\ current_monitoring_games' = NoneGames
                   /\ source_status' # "failed" =>
                          next_games' = IF upcoming = {} THEN {} ELSE EarliestOf(upcoming)
              ELSE /\ source_status' # "not_queried"
                   /\ source_status' # "failed" =>
                          /\ next_games' = IF later = {} THEN {} ELSE EarliestOf(later)
                          /\ current_monitoring_games' =
                                 IF later = {} THEN NoneGames ELSE ListOf(next_games')
    ]_vars

\* a tick found the stored slot expired and stored the slot after it
C22_Witness ==
    /\ pc \in {"sleep", "callback"}
    /\ last_outcome \in {"waiting", "calling"}
    /\ source_status = "games"
    /\ ~cmg_before.isNone
    /\ ~current_monitoring_games.isNone
    /\ FirstGameTime(current_monitoring_games.games) > FirstGameTime(cmg_before.games)
    /\ current_monitoring_games.games = next_games

\* C23 as stated: the slot of a tick is final.  When the tick after it has a slot of
\* the same game_time, no event the provider listed in between has been added to it,
\* in every phase of the run.
C23_SlotFinalInEveryPhase ==
    [][ (TickSelects /\ next_games # {} /\ next_games' # {}
             /\ FirstGameTime(next_games') = FirstGameTime(next_games))
            => next_games' \subseteq next_games
    ]_vars

\* C23 amended: a slot is final once it is the stored watch set.  While its
\* game_time is stored nothing is added to or taken from its games, whatever the
\* provider lists, and a tick that keeps it passes exactly the stored games to the
\* callback.  With nothing stored every tick derives its slot from the schedule as
\* the provider lists it at that tick.
C23_StoredSlotIsFinal ==
    /\ [][ (~current_monitoring_games.isNone /\ ~current_monitoring_games'.isNone
              /\ FirstGameTime(current_monitoring_games'.games)
                     = FirstGameTime(current_monitoring_games.games))
             => current_monitoring_games' = current_monitoring_games
       ]_vars
    /\ [][ (TickSelects /\ WatchKept) =>
             /\ next_games' = current_monitoring_games.games
             /\ pc' = "callback" => callback_args'.games = current_monitoring_games.games
       ]_vars
    /\ [][ (TickSelects /\ current_monitoring_games.isNone /\ source_status' = "games")
             => next_games' = EarliestOf({g \in schedule : g.game_time > now})
       ]_vars

\* the stored slot went to the callback without the fixture the provider had added
\* at its game_time
C23_Witness ==
    /\ pc = "callback"
    /\ ~current_monitoring_games.isNone
    /\ ~cmg_before.isNone
    /\ source_status = "not_queried"
    /\ callback_args.games = current_monitoring_games.games
    /\ \E g \in schedule \ callback_args.games :
           g.game_time = FirstGameTime(callback_args.games)

\* C24 as stated: a schedule-source error during a tick changes nothing: after the
\* tick the stored watch set and last_triggered_games are what they were before it,
\* the callback was not invoked, and the loop goes on to the sleep.
C24_SourceErrorNoChange ==
    [][ (TickSelects /\ source_status' = "failed") =>
            /\ current_monitoring_games' = current_monitoring_games
            /\ last_triggered_games' = last_triggered_games
            /\ calls' = calls
            /\ pc' = "sleep"
    ]_vars

\* C24 amended: a schedule-source error in the slot selection of a tick is handled
\* as an empty schedule: last_triggered_games is unchanged, the callback is not
\* invoked, the loop goes on to the sleep, and the stored watch set is None after
\* the tick, which drops a stored slot that had expired.
C24_SourceErrorIsEmptySchedule ==
    [][ (TickSelects /\ source_status' = "failed") =>
            /\ ~WatchKept
            /\ current_monitoring_games' = NoneGames
            /\ next_games' = {}
            /\ last_triggered_games' = last_triggered_games
            /\ calls' = calls
            /\ pc' = "sleep"
    ]_vars

\* the source failed at the tick that found the stored slot expired, while a later
\* fixture was listed
C24_Witness ==
    /\ pc = "sleep"
    /\ source_status = "failed"
    /\ ~cmg_before.isNone
    /\ current_monitoring_games = NoneGames
    /\ \E g \in schedule : g.game_time > now

\* ---- the loop on a schedule that does not change --------------------------------
\* Fixtures one minute apart, a slot of two fixtures and a later slot.
FixedUniverse ==
    { [teams |-> "NYG@WAS", game_time |-> 1],
      [teams |-> "SF@SEA",  game_time |-> 2],
      [teams |-> "GB@DET",  game_time |-> 4],
      [teams |-> "DEN@LV",  game_time |-> 4],
      [teams |-> "BAL@CIN", game_time |-> 6] }

InitFixed ==
    /\ now = 0
    /\ schedule \in SUBSET FixedUniverse
    /\ check_interval \in 1..MaxCheckInterval
    /\ trigger_window \in 1..MaxTriggerWindow
    /\ auto_continue \in BOOLEAN
    /\ has_callback \in BOOLEAN
    /\ caller_sink = "None"
    /\ last_triggered_games = {}
    /\ current_monitoring_games = NoneGames
    /\ next_games = {}
    /\ pc = "tick"
    /\ callback_args = [games |-> {}, sink |-> "None"]
    /\ calls = << >>
    /\ last_outcome = "none"
    /\ cmg_before = NoneGames
    /\ source_status = "not_queried"
    /\ slept = 0
    /\ WindowIdle
    /\ ParseIdle
    /\ SideIdle

\* the provider lists the same fixtures at every query; a query may still fail
NextFixed ==
    \/ TickBegin
    \/ CallbackReturn
    \/ Sleep
    \/ Interrupt

SpecFixed == InitFixed /\ [][NextFixed]_vars

\* the schedule source answers every query
TickBeginAnswered == TickBeginFrom({TRUE})
\* ... and the callback returns at once
CallbackReturnAtOnce == CallbackReturnFrom({0}, {TRUE})

NextPrompt ==
    \/ TickBeginAnswered
    \/ CallbackReturnAtOnce
    \/ Sleep
    \/ Interrupt

SpecPrompt == InitFixed /\ [][NextPrompt]_vars

\* C28: with a fixed schedule the callback invocations of a run are in strictly
\* increasing slot_time order, whatever the callbacks return and whether
\* auto_continue is on or off.
C28_CallsInSlotOrder ==
    \A i, j \in DOMAIN calls : i < j => calls[i].slot_time < calls[j].slot_time

\* three slots were passed to the callback after an earlier slot had expired, and
\* the last callback did not succeed
C28_Witness ==
    /\ Len(calls) >= 3
    /\ last_outcome \in {"failure", "raised"}
    /\ pc = "sleep"
    /\ \E g \in schedule : g.game_time < calls[1].slot_time

\* the slot times the provider lists, and whether a slot has been passed to the
\* callback before its game_time / at the latest at its game_time
SlotTimes == {g.game_time : g \in schedule}
CalledBefore(t) == \E i \in DOMAIN calls : calls[i].slot_time = t /\ calls[i].at < t
CalledInTime(t) == \E i \in DOMAIN calls : calls[i].slot_time = t /\ calls[i].at <= t
\* the ticks at which slot time t could still be served are over
SlotIsOver(t) == now > t \/ (now = t /\ pc = "sleep")

\* C27 as stated: with a fixed schedule, check_interval <= trigger_window and a
\* callback that returns at once, every slot after the first tick is passed to the
\* callback at a tick at or before its game_time: no slot expires untriggered.
C27_NoSlotSkipped ==
    (has_callback /\ check_interval <= trigger_window) =>
        \A t \in SlotTimes : (t > 0 /\ SlotIsOver(t)) => CalledInTime(t)

\* C27 amended: if moreover no two slots are less than check_interval apart, every
\* slot after the first tick is passed to the callback at a tick before its
\* game_time.
C27_NoSlotSkippedWhenSpaced ==
    (/\ has_callback
     /\ check_interval <= trigger_window
     /\ \A t, u \in SlotTimes : t < u => u - t >= check_interval) =>
        \A t \in SlotTimes : (t > 0 /\ now >= t) => CalledBefore(t)

\* three slots two minutes apart were served by a loop that polls every two
\* minutes with a window of two
C27_Witness ==
    /\ has_callback
    /\ check_interval = 2
    /\ trigger_window = 2
    /\ SlotTimes = {2, 4, 6}
    /\ now >= 6
    /\ Len(calls) = 3
    /\ \A t \in SlotTimes : CalledBefore(t)

\* ---- RateLimitedSheetsService._wait_if_needed -----------------------------------
\* (src/rate_limited_sheets.py).  Times are tenths of a second.  time.sleep sleeps
\* exactly as long as asked, the shortest it can, and the statements between two
\* readings of the clock take no time.
MaxClock == 900

\* what the caller lets pass between two operations: nothing, half a second, half
\* a minute
CallerDelays == {0, 5, 300}

\* lines 34-36: the counting window is reset when a minute has passed
WindowAfterReset(count, start, current_time) ==
    IF current_time - start >= RequestWindow
    THEN [count |-> 0, start |-> current_time]
    ELSE [count |-> count, start |-> start]

\* lines 39-42: the wait when the window's count has reached the limit
MutNoMinuteWait(count, start, current_time) == 0
MinuteWait(count, start, current_time) ==
    LET wait_time == RequestWindow - (current_time - start)
    IN  IF count >= MaxRequestsPerMinute /\ wait_time > 0 THEN wait_time ELSE 0

\* lines 48-51: the sleep that keeps two requests apart; current_time is the
\* reading taken at the top of the function
MutNoIntervalSleep(current_time, last) == 0
IntervalSleep(current_time, last) ==
    LET time_since_last == current_time - last
    IN  IF time_since_last < MinRequestInterval
        THEN MinRequestInterval - time_since_last
        ELSE 0

\* _wait_if_needed entered at current_time: the fields and the clock when it returns
wait_if_needed(current_time) ==
    LET w == WindowAfterReset(request_count, request_window_start, current_time)
        wait_time == MinuteWait(w.count, w.start, current_time)
        after_wait == current_time + wait_time
        sleep_time == IntervalSleep(current_time, last_request_time)
        done == after_wait + sleep_time
    IN  [clock |-> done,
         last_request_time |-> done,
         request_count |-> (IF wait_time > 0 THEN 0 ELSE w.count) + 1,
         request_window_start |-> IF wait_time > 0 THEN after_wait ELSE w.start,
         waits |-> [minute |-> wait_time, interval |-> sleep_time]]

InitLimiter ==
    /\ MonitorIdle
    /\ WindowIdle
    /\ ParseIdle
    /\ CacheIdle
    /\ SequentialIdle
    /\ OrderIdle
    /\ SheetIdle
    /\ LimiterIdle

\* one operation of the service (batch_update, update_values, append_values,
\* get_values, get_spreadsheet): each calls _wait_if_needed before its request
Request ==
    \E delay \in CallerDelays :
        LET r == wait_if_needed(rl_clock + delay)
        IN  /\ r.clock <= MaxClock
            /\ rl_clock' = r.clock
            /\ last_request_time' = r.last_request_time
            /\ request_count' = r.request_count
            /\ request_window_start' = r.request_window_start
            /\ rl_waits' = r.waits
            /\ admitted' = Append(admitted, r.clock)
            /\ UNCHANGED << monitorVars, windowVars, parseVars, cacheVars, seqVars,
                            orderVars, sheetVars >>

NextLimiter == Request

SpecLimiter == InitLimiter /\ [][NextLimiter]_vars

\* the admissions that fall in the time span of length RequestWindow that begins
\* with admission i
AdmittedWithin(i) ==
    {j \in DOMAIN admitted :
         admitted[j] >= admitted[i] /\ admitted[j] - admitted[i] < RequestWindow}

\* C25: two consecutive admissions are at least min_request_interval apart, also
\* when the per-minute wait fired in the same call.
C25_MinSpacing ==
    \A i \in 1..(Len(admitted) - 1) : admitted[i + 1] - admitted[i] >= MinRequestInterval

\* a call in which both the per-minute wait and the spacing sleep fired
C25_Witness ==
    /\ rl_waits.minute > 0
    /\ rl_waits.interval > 0
    /\ Len(admitted) > MaxRequestsPerMinute
    /\ admitted[Len(admitted)] - admitted[Len(admitted) - 1] > MinRequestInterval

\* C26 as stated: at most max_requests_per_minute requests are admitted within any
\* span of a minute, and request_count never exceeds max_requests_per_minute.
C26_CapInAnyMinute ==
    /\ request_count <= MaxRequestsPerMinute
    /\ \A i \in DOMAIN admitted : Cardinality(AdmittedWithin(i)) <= MaxRequestsPerMinute

\* C26 amended: request_count never exceeds max_requests_per_minute and is not
\* less than the number of admissions after request_window_start, so one counting
\* window holds at most max_requests_per_minute admissions; a span of a minute that reaches across a
\* reset of the window can hold more, as many as the spacing of
\* min_request_interval leaves room for.
C26_CapPerCountingWindow ==
    /\ request_count <= MaxRequestsPerMinute
    /\ Cardinality({j \in DOMAIN admitted : admitted[j] > request_window_start})
           <= request_count
    /\ \A i \in DOMAIN admitted :
           Cardinality(AdmittedWithin(i)) <= ((RequestWindow - 1) \div MinRequestInterval) + 1

\* the count reached the limit, the call after it waited for the end of the minute
\* and opened a new counting window
C26_Witness ==
    /\ rl_waits.minute > 0
    /\ request_count = 1
    /\ Len(admitted) = MaxRequestsPerMinute + 1
    /\ request_window_start > 0

\* ---- the second scraper of the sequential callback ------------------------------
UnderdogCalls ==
    { i \in DOMAIN scraper_log : scraper_log[i].scraper = "visit_underdog" }

\* C29: in run_sequential_scraping_callback on a non-empty slot the Underdog
\* scraper is called at most once, exactly once by the return, and never before the
\* PrizePicks step has finished (returned True, returned False or raised); an
\* exception of either scraper never leaves the callback, which returns False.
C29_SecondRunsOnceAfterFirst ==
    (scraping_callback = "run_sequential_scraping_callback" /\ games_info # {}) =>
        /\ seq_pc # "propagated"
        /\ Cardinality(UnderdogCalls) <= 1
        /\ \A i \in UnderdogCalls :
               /\ i = 2
               /\ scraper_log[1].scraper = "visit_prizepicks"
               /\ prizepicks_success \in ScraperOutcomes
        /\ seq_pc = "step2" => UnderdogCalls = {}
        /\ seq_pc = "returned" =>
               /\ Cardinality(UnderdogCalls) = 1
               /\ ("raised" \in {prizepicks_success, underdog_success}) => ~overall_success

C29_Witness ==
    /\ scraping_callback = "run_sequential_scraping_callback"
    /\ games_info # {}
    /\ seq_pc = "returned"
    /\ prizepicks_success = "raised"
    /\ underdog_success = "raised"
    /\ Cardinality(UnderdogCalls) = 1
    /\ ~overall_success

\* ---- create_or_update_sheet ------------------------------------------------------
\* A worksheet is a sequence of rows; of a row's nine cells the model keeps the
\* four key columns and the Line column ("value"), the cells the function reads.
MaxSheetCalls == 3

\* line 337-347: the header row of the layout
SheetHeader ==
    [name |-> "Player Name", team |-> "Team", opponent |-> "Opponent",
     game_time |-> "Game Time", value |-> "Line"]

PlayerNames == {"P. Mahomes", "p. mahomes", "T. Kelce"}
LineValues == {"250.5", "255.5"}

\* the projections handed over as data: dicts with name, team, opponent,
\* game_time and value (lines 943-952)
Players ==
    [name : PlayerNames, team : {"KC"}, opponent : {"LAC"},
     game_time : {"Sun 4:25PM"}, value : LineValues]

SheetDataLists == UNION { [1..n -> Players] : n \in 0..2 }

\* the worksheet before the first call: absent, a blank tab, the header row alone,
\* or the header row and one player's row
SheetsBefore ==
    {[exists |-> FALSE, rows |-> << >>], [exists |-> TRUE, rows |-> << >>],
     [exists |-> TRUE, rows |-> << SheetHeader >>]}
    \cup { [exists |-> TRUE, rows |-> << SheetHeader, p >>] : p \in Players }

\* str.lower() on the texts of the model; none of them has outer blanks for
\* str.strip() to remove
KeyLower(s) ==
    CASE s = "P. Mahomes" -> "p. mahomes"
      [] s = "T. Kelce" -> "t. kelce"
      [] s = "KC" -> "kc"
      [] s = "LAC" -> "lac"
      [] s = "Sun 4:25PM" -> "sun 4:25pm"
      [] s = "Player Name" -> "player name"
      [] s = "Team" -> "team"
      [] s = "Opponent" -> "opponent"
      [] s = "Game Time" -> "game time"
      [] OTHER -> s

\* lines 321 and 391: name|team|opponent|game_time, lower-cased
PlayerKey(p) == << KeyLower(p.name), KeyLower(p.team), KeyLower(p.opponent), KeyLower(p.game_time) >>

\* read_existing_sheet_data: values[1:] numbered from 2, one entry per key, a later
\* row replacing an earlier one with the same key; no values gives the empty dict
read_existing_sheet_data(values) ==
    LET idx == 2..Len(values)
        LastRow(k) ==
            CHOOSE i \in idx :
                /\ PlayerKey(values[i]) = k
                /\ \A j \in idx : PlayerKey(values[j]) = k => j <= i
    IN  [k \in { PlayerKey(values[i]) : i \in idx } |->
            [row_index |-> LastRow(k), line |-> values[LastRow(k)].value]]

\* lines 353-364: sheet_exists as the function believes it; a metadata call that
\* returns None leaves it True, one that raises makes it False
SheetExists(sh, meta) ==
    IF meta = "raised" THEN FALSE ELSE IF meta = "None" THEN TRUE ELSE sh.exists

\* lines 453-464: the rows handed to append_values; for a new sheet all_rows
\* (headers and rows) and body are built, and new_rows is what is passed
AppendArgument(sheet_exists, new_rows) == new_rows

\* what the calls of one run answer: the metadata call, the read and the writes
ApiAnswers == [meta : {"ok", "None", "raised"}, read : BOOLEAN, write : BOOLEAN]
ApiAllOk == [meta |-> "ok", read |-> TRUE, write |-> TRUE]

\* lines 333-480
create_or_update_sheet(sh, data, api) ==
    LET sheet_exists == SheetExists(sh, api.meta)
        \* addSheet succeeds when the call does and the title is free
        add_ok == api.write /\ ~sh.exists
    IN  IF ~sheet_exists /\ ~add_ok
        THEN [sheet |-> sh, ret |-> "False", updated |-> 0, appended |-> 0,
              created |-> FALSE]
        ELSE
          LET tab == IF sheet_exists THEN sh ELSE [exists |-> TRUE, rows |-> << >>]
              existing_data ==
                  IF sheet_exists /\ sh.exists /\ api.read
                  THEN read_existing_sheet_data(sh.rows)
                  ELSE read_existing_sheet_data(<< >>)
              rows_to_update ==
                  SelectSeq(data, LAMBDA p :
                      /\ PlayerKey(p) \in DOMAIN existing_data
                      /\ existing_data[PlayerKey(p)].line # p.value)
              new_rows ==
                  SelectSeq(data, LAMBDA p : PlayerKey(p) \notin DOMAIN existing_data)
              \* lines 444-448: the updates one by one, a later one of the same
              \* cell over an earlier one
              Touching(i) ==
                  { n \in DOMAIN rows_to_update :
                        existing_data[PlayerKey(rows_to_update[n])].row_index = i }
              LastTouch(i) == CHOOSE n \in Touching(i) : \A m \in Touching(i) : m <= n
              updated_rows ==
                  IF api.write
                  THEN [i \in DOMAIN tab.rows |->
                           IF Touching(i) = {}
                           THEN tab.rows[i]
                           ELSE [tab.rows[i] EXCEPT
                                    !.value = rows_to_update[LastTouch(i)].value]]
                  ELSE tab.rows
              append_ok == api.write /\ tab.exists
              appended_rows ==
                  IF new_rows # << >> /\ append_ok
                  THEN updated_rows \o AppendArgument(sheet_exists, new_rows)
                  ELSE updated_rows
          IN  [sheet |-> [exists |-> tab.exists, rows |-> appended_rows],
               ret |-> IF new_rows # << >> /\ ~append_ok THEN "False" ELSE "True",
               updated |-> IF api.write THEN Len(rows_to_update) ELSE 0,
               appended |-> IF append_ok THEN Len(new_rows) ELSE 0,
               created |-> ~sheet_exists]

InitSheet ==
    /\ MonitorIdle
    /\ WindowIdle
    /\ ParseIdle
    /\ CacheIdle
    /\ SequentialIdle
    /\ OrderIdle
    /\ LimiterIdle
    /\ sheet \in SheetsBefore
    /\ sheet_data \in SheetDataLists
    /\ sheet_calls = 0
    /\ sheet_created = FALSE
    /\ api_all_ok = TRUE
    /\ last_write = [ret |-> "none", updated |-> 0, appended |-> 0]

\* one call of create_or_update_sheet with the data of the run (line 1220)
SheetCall ==
    /\ sheet_calls < MaxSheetCalls
    /\ \E api \in ApiAnswers :
           LET r == create_or_update_sheet(sheet, sheet_data, api)
           IN  /\ sheet' = r.sheet
               /\ last_write' = [ret |-> r.ret, updated |-> r.updated,
                                 appended |-> r.appended]
               /\ sheet_created' = (sheet_created \/ r.created)
               /\ api_all_ok' = (api_all_ok /\ api = ApiAllOk)
    /\ sheet_calls' = sheet_calls + 1
    /\ UNCHANGED << sheet_data, monitorVars, windowVars, parseVars, cacheVars,
                    seqVars, orderVars, limiterVars >>

NextSheet == SheetCall

SpecSheet == InitSheet /\ [][NextSheet]_vars

NoTwoRowsSameKey ==
    \A i, j \in DOMAIN sheet.rows :
        PlayerKey(sheet.rows[i]) = PlayerKey(sheet.rows[j]) => i = j

\* C30: create_or_update_sheet is idempotent: when every call so far succeeded, a
\* second or later call with the same data updates no cell and appends no row,
\* whether the sheet existed before the first call or the first call created it,
\* and the sheet holds no two rows with the same player|team|opponent|game_time key.
C30_SecondCallWritesNothing ==
    (sheet_calls >= 2 /\ api_all_ok) =>
        /\ last_write.updated = 0
        /\ last_write.appended = 0
        /\ NoTwoRowsSameKey

====
